---- MODULE Spec2Model ----
(***************************************************************************)
(* Model of js/eye-tracking-utils.js: the EyeTrackingUtils adapter around  *)
(* the WebGazer engine, its calibration sequencer (chained setTimeout      *)
(* continuations), the sessionStorage calibration state, the export record *)
(* and the dwell-time analysis.                                            *)
(*                                                                         *)
(* JavaScript objects are references, so arrays and calibration records    *)
(* live in heaps (heapArr, heapRec) and fields hold indices into them;     *)
(* index 0 is null.  Time is in milliseconds and advances in quanta of the *)
(* sampling delay.                                                         *)
(***************************************************************************)
EXTENDS Integers, Sequences, FiniteSets, TLC

VARIABLES
    isInitialized,  \* this.isInitialized
    gazeRef,        \* this.gazeData: index of the array object in heapArr
    heapArr,        \* array objects: sequence of sequences of GazePoint
    calRef,         \* this.calibrationData: index in heapRec, 0 for null
    heapRec,        \* calibration record objects
    store,          \* sessionStorage: key -> <<>> (absent) or <<string>>
    engine,         \* the webgazer engine as the adapter can observe it
    seqs,           \* one entry per calibrate() call that passed its guard
    interrupted,    \* history: sequences that saw stop()/pause() mid-run
    calLog,         \* history: calibration events and recordScreenPosition calls
    exports,        \* records returned by exportGazeData() still held by callers
    now,            \* Date.now()
    out,            \* the last step: operation, outcome, engine calls, events
    budget,         \* remaining calls the environment may still make
    doc,            \* the document's .aoi elements
    dwellArg,       \* the gaze sequence handed to calculateDwellTimeOnAOIs
    dwellTimes,     \* the mapping it returned, in Object.keys order
    gazeStats       \* what the last calculateGazeStats returned, <<>> before

vars == <<isInitialized, gazeRef, heapArr, calRef, heapRec, store, engine,
          seqs, interrupted, calLog, exports, now, out, budget,
          doc, dwellArg, dwellTimes, gazeStats>>

adapterVars == <<isInitialized, gazeRef, heapArr, calRef, heapRec, store,
                 engine, seqs, interrupted, calLog, exports, now>>

dwellVars == <<doc, dwellArg, dwellTimes, gazeStats>>

----------------------------------------------------------------------------
(* Bounds of the model *)

MaxTicks == 10      \* time quanta the clock may advance
MaxSeqs == 2        \* calibrate() calls that pass the guard
MaxGaze == 2        \* gaze points in one array
MaxExports == 1     \* export records held by callers
MaxLoads == 1       \* loadCalibrationState() calls that restore a record
MaxExternal == 1    \* writes to sessionStorage made by other code
MaxDwellPoints == 3 \* points in a sequence handed to the dwell analysis
OpsTicks == 1       \* time quanta of a session that uses every operation
StatsTicks == 2     \* time quanta of a session that asks for statistics
LongTicks == 18     \* time quanta in which two targets can be completed

----------------------------------------------------------------------------
(* Program constants *)

maxSamples == 5         \* samples recorded per calibration target
SampleDelay == 100      \* setTimeout(collectSample, 100)
SettleDelay == 500      \* setTimeout(processNextPoint, 500)
DwellThreshold == 500   \* duration < 500

Pathname == "/abstract1.html"   \* window.location.pathname

\* window.innerWidth and window.innerHeight
Viewport == [innerWidth |-> 1000, innerHeight |-> 800]

Pos(x, y) == [x |-> x, y |-> y]

defaultPositions ==
    << Pos(10, 10), Pos(50, 10), Pos(90, 10),
       Pos(10, 50), Pos(50, 50), Pos(90, 50),
       Pos(10, 90), Pos(50, 90), Pos(90, 90) >>

\* The positions arguments callers pass to calibrate(); given = FALSE is the
\* omitted (null) argument.
Given(list) == [given |-> TRUE, list |-> list]
Omitted == [given |-> FALSE, list |-> <<>>]

OneTarget == Given(<< Pos(50, 50) >>)
TwoTargets == Given(<< Pos(10, 50), Pos(90, 50) >>)

PositionArgs == { Omitted, Given(<<>>), OneTarget, TwoTargets }

\* positions || defaultPositions: an array, even an empty one, is truthy.
calibrationPositions(positions) ==
    IF positions.given THEN positions.list ELSE defaultPositions

Times == { k * SampleDelay : k \in 0..MaxTicks }

----------------------------------------------------------------------------
(* sessionStorage *)

Keys == {"eyeTrackingCalibrated", "calibrationTimestamp", "calibrationData"}

getItem(key) == store[key]

\* A JavaScript string is truthy unless it is empty; null (absent) is falsy.
TruthyItem(item) == item # <<>> /\ item # <<"">>

----------------------------------------------------------------------------
(* JSON.stringify / JSON.parse of a calibration record *)

RECURSIVE JSONPositions(_)
JSONPositions(ps) ==
    IF ps = <<>> THEN ""
    ELSE "{\"x\":" \o ToString(ps[1].x) \o ",\"y\":" \o ToString(ps[1].y) \o "}"
         \o (IF Len(ps) > 1 THEN "," ELSE "") \o JSONPositions(Tail(ps))

Plain(positions, timestamp, completed) ==
    [positions |-> positions, timestamp |-> timestamp, completed |-> completed]

JSONstringify(rec) ==
    "{\"positions\":[" \o JSONPositions(rec.positions) \o "],\"timestamp\":"
    \o ToString(rec.timestamp) \o ",\"completed\":"
    \o (IF rec.completed THEN "true" ELSE "false") \o "}"

PlainRecords ==
    { Plain(calibrationPositions(ps), t, c) :
        ps \in PositionArgs, t \in Times, c \in BOOLEAN }

\* JSON.parse: "null" gives null, the text of a record gives a fresh record
\* with that content, anything else is a SyntaxError.
Parses(text) == text = "null" \/ \E r \in PlainRecords : JSONstringify(r) = text

JSONparse(text) == CHOOSE r \in PlainRecords : JSONstringify(r) = text

----------------------------------------------------------------------------
(* Values *)

GazePoint(x, y, timestamp, elapsedTime, page) ==
    [x |-> x, y |-> y, timestamp |-> timestamp, elapsedTime |-> elapsedTime,
     page |-> page]

\* What the engine hands to the gaze listener: <<>> is a null prediction.
Predictions == { <<>>, << Pos(10, 10) >> }

\* The engine's own clock reading that comes with a prediction.
ElapsedTimes == { 33 }

Out(op, kind, val, calls, events) ==
    [op |-> op, kind |-> kind, val |-> val, calls |-> calls, events |-> events]

\* A step of the environment: no adapter method ran.
Env(op) == Out(op, "none", "", <<>>, <<>>)

\* A closure of one calibrate() call: positions, currentPoint, the samples
\* counter of the running collectPoint, where the chain stands, the time
\* left on its pending timer and the record the promise resolved with.
Closure(positions, currentPoint, samples, status, rem, value) ==
    [positions |-> positions, currentPoint |-> currentPoint,
     samples |-> samples, status |-> status, rem |-> rem, value |-> value]

Pending(sq) == sq.status \in {"sampling", "settling"}

InProgress == { s \in 1..Len(seqs) : Pending(seqs[s]) }

LogEntry(kind, seq, index, x, y) ==
    [kind |-> kind, seq |-> seq, index |-> index, x |-> x, y |-> y]

----------------------------------------------------------------------------
(* Initial state: the constructor, an empty session store, an idle engine *)

InitAdapter ==
    /\ isInitialized = FALSE
    /\ gazeRef = 1
    /\ heapArr = << <<>> >>
    /\ calRef = 0
    /\ heapRec = <<>>
    /\ store = [k \in Keys |-> <<>>]
    /\ engine = [running |-> FALSE, ready |-> FALSE, paused |-> FALSE]
    /\ seqs = <<>>
    /\ interrupted = {}
    /\ calLog = <<>>
    /\ exports = <<>>
    /\ now = 0
    /\ out = Env("constructor")

InitDwellIdle ==
    /\ doc = <<>>
    /\ dwellArg = <<>>
    /\ dwellTimes = <<>>
    /\ gazeStats = <<>>

\* A time range argument: null, or an object with start and end.
NoRange == <<>>
Range(start, end) == << [start |-> start, end |-> end] >>

\* The time ranges callers ask statistics for: none, and ranges that are
\* empty, inverted, a single instant or the whole session.
TimeRanges ==
    {NoRange} \cup { Range(a * SampleDelay, b * SampleDelay) : a, b \in 0..2 }

\* What the environment may do: the positions it passes to calibrate(), the
\* calibrate() calls that pass the guard, clock quanta, loads that restore a
\* record, writes to the store by other code, the time ranges it asks
\* statistics for, the calls on the engine that may fail in init().
Budget(args, seqsN, ticks, loads, external) ==
    [args |-> args, seqs |-> seqsN, ticks |-> ticks, loads |-> loads,
     external |-> external, ranges |-> TimeRanges, failing |-> {6}]

Init ==
    /\ InitAdapter
    /\ InitDwellIdle
    /\ budget = Budget(PositionArgs \ {TwoTargets}, MaxSeqs, MaxTicks, MaxLoads, 0)

----------------------------------------------------------------------------
(* Gaze Capture Adapter *)

InitCalls ==
    << "setRegression", "setTracker", "showVideoPreview",
       "showPredictionPoints", "setGazeListener", "begin" >>

\* init(): the engine is configured and started; when begin() rejects (no
\* camera), the catch turns that into an 'error' event and false.
initOk ==
    /\ isInitialized' = TRUE
    /\ engine' = [engine EXCEPT !.running = TRUE, !.paused = FALSE]
    /\ out' = Out("init", "return", "true", InitCalls, << "initialized" >>)
    /\ UNCHANGED <<gazeRef, heapArr, calRef, heapRec, store, seqs, interrupted,
                   calLog, exports, now, budget>>
    /\ UNCHANGED dwellVars

initFailsThrowing ==
    /\ \E k \in budget.failing :
          out' = Out("init", "throw", "error", SubSeq(InitCalls, 1, k), <<>>)
    /\ UNCHANGED adapterVars
    /\ UNCHANGED budget
    /\ UNCHANGED dwellVars

\* The k-th call on the engine throws or rejects: the calls behind it are
\* not made and the catch block runs.
initFails ==
    /\ \E k \in budget.failing :
          out' = Out("init", "return", "false", SubSeq(InitCalls, 1, k),
                     << "error" >>)
    /\ UNCHANGED <<isInitialized, engine, gazeRef, heapArr, calRef, heapRec, store,
                   seqs, interrupted, calLog, exports, now, budget>>
    /\ UNCHANGED dwellVars

init == initOk \/ initFails

\* The engine reports itself ready some time after it was started.
EngineReady ==
    /\ engine.running
    /\ ~engine.ready
    /\ engine' = [engine EXCEPT !.ready = TRUE]
    /\ out' = Env("ready")
    /\ UNCHANGED <<isInitialized, gazeRef, heapArr, calRef, heapRec, store,
                   seqs, interrupted, calLog, exports, now, budget>>
    /\ UNCHANGED dwellVars

\* The listener registered by init(): a null prediction is dropped, any other
\* one is pushed onto this.gazeData and raised as a 'gaze' event.
gazeListenerOverwriting(data, elapsedTime) ==
    IF data = <<>>
    THEN /\ out' = Out("gazeListener", "return", "", <<>>, <<>>)
         /\ UNCHANGED heapArr
    ELSE /\ heapArr' = [heapArr EXCEPT ![gazeRef] =
                          << GazePoint(data[1].x, data[1].y, now,
                                       elapsedTime, Pathname) >>]
         /\ out' = Out("gazeListener", "return", "", <<>>, << "gaze" >>)

gazeListener(data, elapsedTime) ==
    IF data = <<>>
    THEN /\ out' = Out("gazeListener", "return", "", <<>>, <<>>)
         /\ UNCHANGED heapArr
    ELSE /\ heapArr' = [heapArr EXCEPT ![gazeRef] =
                          Append(@, GazePoint(data[1].x, data[1].y, now,
                                              elapsedTime, Pathname))]
         /\ out' = Out("gazeListener", "return", "", <<>>, << "gaze" >>)

\* The engine delivers a prediction while it runs and is not paused.
Gaze ==
    /\ engine.running
    /\ ~engine.paused
    /\ Len(heapArr[gazeRef]) < MaxGaze
    /\ \E data \in Predictions, elapsedTime \in ElapsedTimes :
          gazeListener(data, elapsedTime)
    /\ UNCHANGED <<isInitialized, gazeRef, calRef, heapRec, store, engine,
                   seqs, interrupted, calLog, exports, now, budget>>
    /\ UNCHANGED dwellVars

\* Arrays some export record still refers to.
HeldArrays == { exports[i].gazeData : i \in 1..Len(exports) }

ClearsEngineAlways == TRUE

\* if (this.isInitialized) webgazer.clearData()
ClearsEngine == isInitialized

\* clearData(): this.gazeData = [] makes a new array object; the old one
\* stays alive only if an export record refers to it, otherwise its heap
\* cell is reused for the new array.
clearData ==
    /\ IF gazeRef \in HeldArrays
       THEN /\ heapArr' = Append(heapArr, <<>>)
            /\ gazeRef' = Len(heapArr) + 1
       ELSE /\ heapArr' = [heapArr EXCEPT ![gazeRef] = <<>>]
            /\ gazeRef' = gazeRef
    /\ out' = Out("clearData", "return", "",
                  IF ClearsEngine THEN << "clearData" >> ELSE <<>>, <<>>)
    /\ UNCHANGED <<isInitialized, calRef, heapRec, store, engine, seqs,
                   interrupted, calLog, exports, now, budget>>
    /\ UNCHANGED dwellVars

StopsWhenInitialized == isInitialized

\* if (this.isInitialized && webgazer.isReady())
StopEffective == isInitialized /\ engine.ready

stop ==
    /\ IF StopEffective
       THEN /\ engine' = [engine EXCEPT !.running = FALSE, !.ready = FALSE]
            /\ isInitialized' = FALSE
            /\ interrupted' = interrupted \cup InProgress
            /\ out' = Out("stop", "return", "", << "end" >>, << "stopped" >>)
       ELSE /\ out' = Out("stop", "return", "", <<>>, <<>>)
            /\ UNCHANGED <<engine, isInitialized, interrupted>>
    /\ UNCHANGED <<gazeRef, heapArr, calRef, heapRec, store, seqs, calLog,
                   exports, now, budget>>
    /\ UNCHANGED dwellVars

pauseCancelling ==
    /\ IF isInitialized
       THEN /\ engine' = [engine EXCEPT !.paused = TRUE]
            /\ interrupted' = interrupted \cup InProgress
            /\ seqs' = [s \in 1..Len(seqs) |->
                          IF Pending(seqs[s])
                          THEN [seqs[s] EXCEPT !.status = "cancelled", !.rem = 0]
                          ELSE seqs[s]]
            /\ out' = Out("pause", "return", "", << "pause" >>, << "paused" >>)
       ELSE /\ out' = Out("pause", "return", "", <<>>, <<>>)
            /\ UNCHANGED <<engine, interrupted, seqs>>
    /\ UNCHANGED <<isInitialized, gazeRef, heapArr, calRef, heapRec, store,
                   calLog, exports, now, budget>>
    /\ UNCHANGED dwellVars

pause ==
    /\ IF isInitialized
       THEN /\ engine' = [engine EXCEPT !.paused = TRUE]
            /\ interrupted' = interrupted \cup InProgress
            /\ out' = Out("pause", "return", "", << "pause" >>, << "paused" >>)
       ELSE /\ out' = Out("pause", "return", "", <<>>, <<>>)
            /\ UNCHANGED <<engine, interrupted>>
    /\ UNCHANGED <<isInitialized, gazeRef, heapArr, calRef, heapRec, store, seqs,
                   calLog, exports, now, budget>>
    /\ UNCHANGED dwellVars

resume ==
    /\ IF isInitialized
       THEN /\ engine' = [engine EXCEPT !.paused = FALSE]
            /\ out' = Out("resume", "return", "", << "resume" >>, << "resumed" >>)
       ELSE /\ out' = Out("resume", "return", "", <<>>, <<>>)
            /\ UNCHANGED engine
    /\ UNCHANGED <<isInitialized, gazeRef, heapArr, calRef, heapRec, store, seqs,
                   interrupted, calLog, exports, now, budget>>
    /\ UNCHANGED dwellVars

----------------------------------------------------------------------------
(* Exporter *)

\* The content of a calibration reference: <<>> for null.
RecordAt(ref) == IF ref = 0 THEN <<>> ELSE << heapRec[ref] >>

\* exportGazeData(): the record holds this.gazeData and this.calibrationData
\* themselves, that is, references to the live array and record.  asReturned
\* keeps what the two held at the time of the call.
exportGazeData ==
    /\ Len(exports) < MaxExports
    /\ exports' = Append(exports,
          [gazeData |-> gazeRef,
           calibrationData |-> calRef,
           metadata |-> [viewportSize |-> << Viewport.innerWidth, Viewport.innerHeight >>,
                         exportTime |-> now],
           asReturned |-> [gazeData |-> heapArr[gazeRef],
                           calibrationData |-> RecordAt(calRef)]])
    /\ out' = Out("exportGazeData", "return", "", <<>>, <<>>)
    /\ UNCHANGED <<isInitialized, gazeRef, heapArr, calRef, heapRec, store, engine,
                   seqs, interrupted, calLog, now, budget>>
    /\ UNCHANGED dwellVars

----------------------------------------------------------------------------
(* Calibration Sequencer *)

\* The functions of calibrate()'s closure act on a world w: the closure sq of
\* sequence s, the record heap hrec and this.calibrationData cref as they
\* stand, and the log, engine calls and events produced so far.

PixelX(pos) == (pos.x * Viewport.innerWidth) \div 100
PixelY(pos) == (pos.y * Viewport.innerHeight) \div 100

\* collectSample: one more sample for the current target; below maxSamples
\* the next one is scheduled, otherwise pointResolve() lets processNextPoint
\* continue after its await: currentPoint++ and the settling timer.
collectSample(w) ==
    LET pos == w.sq.positions[w.sq.currentPoint + 1]
        n == w.sq.samples + 1
        recorded == [w EXCEPT
            !.log = Append(@, LogEntry("recordScreenPosition", w.s,
                                       w.sq.currentPoint, PixelX(pos), PixelY(pos))),
            !.calls = Append(@, "recordScreenPosition")]
    IN  IF n < maxSamples
        THEN [recorded EXCEPT !.sq.samples = n, !.sq.status = "sampling",
                              !.sq.rem = SampleDelay]
        ELSE [recorded EXCEPT !.sq.samples = 0, !.sq.status = "settling",
                              !.sq.currentPoint = @ + 1, !.sq.rem = SettleDelay]

processNextPointLate(w) ==
    IF w.sq.currentPoint >= Len(w.sq.positions)
    THEN IF w.cref = 0
         THEN [w EXCEPT !.sq.status = "failed", !.sq.rem = 0]
         ELSE [w EXCEPT
                 !.hrec[w.cref].completed = TRUE,
                 !.events = Append(@, "calibrationCompleted"),
                 !.log = Append(@, LogEntry("calibrationCompleted", w.s,
                                            w.sq.currentPoint, 0, 0)),
                 !.sq.status = "resolved", !.sq.rem = 0, !.sq.value = w.cref]
    ELSE LET pos == w.sq.positions[w.sq.currentPoint + 1]
         IN  [collectSample([w EXCEPT !.sq.samples = 0]) EXCEPT
                 !.events = Append(@, "calibrationPoint"),
                 !.log = Append(@, LogEntry("calibrationPoint", w.s,
                                            w.sq.currentPoint, pos.x, pos.y))]

\* processNextPoint: past the last target it marks this.calibrationData
\* completed (a TypeError when that is null), raises calibrationCompleted and
\* resolves; otherwise it raises calibrationPoint and takes the first sample.
processNextPoint(w) ==
    IF w.sq.currentPoint >= Len(w.sq.positions)
    THEN IF w.cref = 0
         THEN [w EXCEPT !.sq.status = "failed", !.sq.rem = 0]
         ELSE [w EXCEPT
                 !.hrec[w.cref].completed = TRUE,
                 !.events = Append(@, "calibrationCompleted"),
                 !.log = Append(@, LogEntry("calibrationCompleted", w.s,
                                            w.sq.currentPoint, 0, 0)),
                 !.sq.status = "resolved", !.sq.rem = 0, !.sq.value = w.cref]
    ELSE LET pos == w.sq.positions[w.sq.currentPoint + 1]
         IN  collectSample([w EXCEPT
                 !.events = Append(@, "calibrationPoint"),
                 !.log = Append(@, LogEntry("calibrationPoint", w.s,
                                            w.sq.currentPoint, pos.x, pos.y)),
                 !.sq.samples = 0])

World(s, sq, hrec, cref, log, calls, events) ==
    [s |-> s, sq |-> sq, hrec |-> hrec, cref |-> cref, log |-> log,
     calls |-> calls, events |-> events]

CalibrationRecord(positions, timestamp, completed, owner) ==
    [positions |-> positions, timestamp |-> timestamp, completed |-> completed,
     owner |-> owner]

\* if (!this.isInitialized) throw ...: the guard calibrate() opens with.
CalibrateUnguarded == TRUE

CanCalibrate == isInitialized

\* calibrate() on an initialized adapter: the engine's data is cleared, a new
\* record replaces this.calibrationData, and processNextPoint runs at once.
calibrateStarts(positions) ==
    /\ CanCalibrate
    /\ Len(seqs) < budget.seqs
    /\ LET s == Len(seqs) + 1
           ps == calibrationPositions(positions)
           w == processNextPoint(World(s,
                    Closure(ps, 0, 0, "sampling", 0, 0),
                    Append(heapRec, CalibrationRecord(ps, now, FALSE, s)),
                    Len(heapRec) + 1,
                    Append(calLog, LogEntry("calibrationStarted", s, 0, 0, 0)),
                    << "clearData" >>,
                    << "calibrationStarted" >>))
       IN  /\ seqs' = Append(seqs, w.sq)
           /\ heapRec' = w.hrec
           /\ calRef' = w.cref
           /\ calLog' = w.log
           /\ out' = Out("calibrate", "return", "promise", w.calls, w.events)
    /\ UNCHANGED <<isInitialized, gazeRef, heapArr, store, engine, interrupted,
                   exports, now, budget>>
    /\ UNCHANGED dwellVars

\* calibrate() on an adapter that is not initialized throws before anything else.
calibrateThrows ==
    /\ ~CanCalibrate
    /\ out' = Out("calibrate", "throw", "Eye tracking not initialized", <<>>, <<>>)
    /\ UNCHANGED adapterVars
    /\ UNCHANGED budget
    /\ UNCHANGED dwellVars

calibrate == calibrateThrows \/ \E positions \in budget.args : calibrateStarts(positions)

\* A due timer of sequence s fires: collectSample while sampling,
\* processNextPoint after the settling delay.
Timer(s) ==
    /\ Pending(seqs[s])
    /\ seqs[s].rem <= 0
    /\ LET w0 == World(s, seqs[s], heapRec, calRef, calLog, <<>>, <<>>)
           w == IF seqs[s].status = "sampling" THEN collectSample(w0)
                ELSE processNextPoint(w0)
       IN  /\ seqs' = [seqs EXCEPT ![s] = w.sq]
           /\ heapRec' = w.hrec
           /\ calLog' = w.log
           /\ out' = Out("timer", "none", "", w.calls, w.events)
    /\ UNCHANGED <<isInitialized, gazeRef, heapArr, calRef, store, engine,
                   interrupted, exports, now, budget>>
    /\ UNCHANGED dwellVars

\* Time passes by one quantum unless a timer is due.
Advance ==
    /\ now < budget.ticks * SampleDelay
    /\ \A s \in InProgress : seqs[s].rem > 0
    /\ now' = now + SampleDelay
    /\ seqs' = [s \in 1..Len(seqs) |->
                  IF Pending(seqs[s])
                  THEN [seqs[s] EXCEPT !.rem = @ - SampleDelay]
                  ELSE seqs[s]]
    /\ out' = Env("tick")
    /\ UNCHANGED <<isInitialized, gazeRef, heapArr, calRef, heapRec, store, engine,
                   interrupted, calLog, exports, budget>>
    /\ UNCHANGED dwellVars

----------------------------------------------------------------------------
(* Session State Store *)

isCalibratedInMemoryOnly ==
    IF calRef = 0 THEN "null"
    ELSE IF ~heapRec[calRef].completed THEN "false"
    ELSE "true"

\* a && b && c yields the first falsy operand, or the last one.
isCalibrated ==
    IF calRef = 0 THEN "null"
    ELSE IF ~heapRec[calRef].completed THEN "false"
    ELSE IF getItem("eyeTrackingCalibrated") = << "true" >> THEN "true" ELSE "false"

Truthy(value) == value = "true"

SavesAnyRecord == calRef # 0

\* if (this.calibrationData && this.calibrationData.completed)
SavesRecord == calRef # 0 /\ heapRec[calRef].completed

SavedAtDateNow == now

\* this.calibrationData.timestamp.toString()
SavedTimestamp == heapRec[calRef].timestamp

saveCalibrationState ==
    /\ IF SavesRecord
       THEN store' = [store EXCEPT
                !["eyeTrackingCalibrated"] = << "true" >>,
                !["calibrationTimestamp"] = << ToString(SavedTimestamp) >>,
                !["calibrationData"] = << JSONstringify(heapRec[calRef]) >>]
       ELSE UNCHANGED store
    /\ out' = Out("saveCalibrationState", "return", "", <<>>, <<>>)
    /\ UNCHANGED <<isInitialized, gazeRef, heapArr, calRef, heapRec, engine, seqs,
                   interrupted, calLog, exports, now, budget>>
    /\ UNCHANGED dwellVars

loadCalibrationStateUnassigned ==
    LET calibrated == getItem("eyeTrackingCalibrated") = << "true" >>
        timestamp == getItem("calibrationTimestamp")
        data == getItem("calibrationData")
    IN  /\ IF calibrated /\ TruthyItem(timestamp) /\ TruthyItem(data)
           THEN IF ~Parses(data[1])
                THEN out' = Out("loadCalibrationState", "throw", "SyntaxError", <<>>, <<>>)
                ELSE out' = Out("loadCalibrationState", "return", "true", <<>>, <<>>)
           ELSE out' = Out("loadCalibrationState", "return", "false", <<>>, <<>>)
        /\ UNCHANGED adapterVars
        /\ UNCHANGED budget
        /\ UNCHANGED dwellVars

\* loadCalibrationState(): JSON.parse makes a new record object out of the
\* stored text, or throws on text that is no JSON.
loadCalibrationState ==
    LET calibrated == getItem("eyeTrackingCalibrated") = << "true" >>
        timestamp == getItem("calibrationTimestamp")
        data == getItem("calibrationData")
    IN  /\ IF calibrated /\ TruthyItem(timestamp) /\ TruthyItem(data)
           THEN IF ~Parses(data[1])
                THEN /\ out' = Out("loadCalibrationState", "throw", "SyntaxError", <<>>, <<>>)
                     /\ UNCHANGED <<calRef, heapRec, budget>>
                ELSE IF data[1] = "null"
                THEN /\ calRef' = 0
                     /\ out' = Out("loadCalibrationState", "return", "true", <<>>, <<>>)
                     /\ UNCHANGED <<heapRec, budget>>
                ELSE /\ budget.loads > 0
                     /\ budget' = [budget EXCEPT !.loads = @ - 1]
                     /\ LET r == JSONparse(data[1])
                        IN  heapRec' = Append(heapRec,
                               CalibrationRecord(r.positions, r.timestamp, r.completed, 0))
                     /\ calRef' = Len(heapRec) + 1
                     /\ out' = Out("loadCalibrationState", "return", "true", <<>>, <<>>)
           ELSE /\ out' = Out("loadCalibrationState", "return", "false", <<>>, <<>>)
                /\ UNCHANGED <<calRef, heapRec, budget>>
        /\ UNCHANGED <<isInitialized, gazeRef, heapArr, store, engine, seqs,
                       interrupted, calLog, exports, now>>
        /\ UNCHANGED dwellVars

\* Other code of the page writes or removes a key of the session store.
ExternalValues(key) ==
    IF key = "eyeTrackingCalibrated" THEN { "true", "false", "" }
    ELSE IF key = "calibrationTimestamp" THEN { "0", "" }
    ELSE { "null", "{\"positions\":", "",
           JSONstringify(Plain(<< Pos(50, 50) >>, 0, FALSE)) }

ExternalSetItem ==
    /\ budget.external > 0
    /\ budget' = [budget EXCEPT !.external = @ - 1]
    /\ \E key \in Keys : \E value \in ExternalValues(key) :
          store' = [store EXCEPT ![key] = << value >>]
    /\ out' = Env("setItem")
    /\ UNCHANGED <<isInitialized, gazeRef, heapArr, calRef, heapRec, engine, seqs,
                   interrupted, calLog, exports, now>>
    /\ UNCHANGED dwellVars

ExternalRemoveItem ==
    /\ budget.external > 0
    /\ budget' = [budget EXCEPT !.external = @ - 1]
    /\ \E key \in Keys : store[key] # <<>> /\ store' = [store EXCEPT ![key] = <<>>]
    /\ out' = Env("removeItem")
    /\ UNCHANGED <<isInitialized, gazeRef, heapArr, calRef, heapRec, engine, seqs,
                   interrupted, calLog, exports, now>>
    /\ UNCHANGED dwellVars

----------------------------------------------------------------------------
(* Region-of-Interest Analyzer *)

\* Strings the analysis takes apart are sequences of characters.
RECURSIVE TrimLeft(_)
TrimLeft(t) == IF t # <<>> /\ Head(t) = " " THEN TrimLeft(Tail(t)) ELSE t

RECURSIVE TrimRight(_)
TrimRight(t) ==
    IF t # <<>> /\ t[Len(t)] = " " THEN TrimRight(SubSeq(t, 1, Len(t) - 1)) ELSE t

trim(t) == TrimRight(TrimLeft(t))

startsWith(k, t) == Len(t) <= Len(k) /\ SubSeq(k, 1, Len(t)) = t

Element(innerText, left, top, right, bottom) ==
    [innerText |-> innerText, left |-> left, top |-> top, right |-> right,
     bottom |-> bottom]

isGazeOnElement(gazeX, gazeY, element) ==
    /\ gazeX >= element.left
    /\ gazeX <= element.right
    /\ gazeY >= element.top
    /\ gazeY <= element.bottom

\* Math.random().toString(36).substr(2, 5): up to five base-36 digits, fewer
\* (even none) when the fraction is short.
Suffixes == { <<>>, << "i" >>, << "k", "3", "x", "9", "q" >> }

\* dwellTimes[key] = value on an object kept as its entries in key order:
\* a new key goes last, an existing one keeps its place.
SetEntry(d, key, ms) ==
    IF \E i \in 1..Len(d) : d[i].key = key
    THEN [i \in 1..Len(d) |-> IF d[i].key = key THEN [key |-> key, ms |-> ms] ELSE d[i]]
    ELSE Append(d, [key |-> key, ms |-> ms])

\* The first loop: one zero entry per element, keyed by trimmed text, "_"
\* and the random suffix rnd[i] drawn for element i.
RECURSIVE ZeroEntries(_, _, _, _)
ZeroEntries(d, elements, rnd, i) ==
    IF i > Len(elements) THEN d
    ELSE ZeroEntries(SetEntry(d, trim(elements[i].innerText) \o << "_" >> \o rnd[i], 0),
                     elements, rnd, i + 1)

\* Object.keys(dwellTimes).find(k => k.startsWith(text)): the index of the
\* first such entry, 0 when there is none.
FindKey(d, text) ==
    IF \E i \in 1..Len(d) : startsWith(d[i].key, text)
    THEN CHOOSE i \in 1..Len(d) :
            /\ startsWith(d[i].key, text)
            /\ \A j \in 1..(i - 1) : ~startsWith(d[j].key, text)
    ELSE 0

\* typeof p.time === 'number'
HasNumberTime(p) == "time" \in DOMAIN p

Duration(currentGaze, nextGaze) ==
    IF HasNumberTime(nextGaze) /\ HasNumberTime(currentGaze)
    THEN nextGaze.time - currentGaze.time
    ELSE 0

\* The body of the inner forEach for gaze pair i and element j.
Credit(d, gazeData, elements, i, j) ==
    LET currentGaze == gazeData[i]
        nextGaze == gazeData[i + 1]
        el == elements[j]
        k == FindKey(d, trim(el.innerText))
        duration == Duration(currentGaze, nextGaze)
    IN  IF /\ isGazeOnElement(currentGaze.x, currentGaze.y, el)
           /\ k # 0
           /\ duration > 0
           /\ duration < DwellThreshold
        THEN [d EXCEPT ![k].ms = @ + duration]
        ELSE d

RECURSIVE Accumulate(_, _, _, _, _)
Accumulate(d, gazeData, elements, i, j) ==
    IF i > Len(gazeData) - 1 THEN d
    ELSE IF j > Len(elements) THEN Accumulate(d, gazeData, elements, i + 1, 1)
    ELSE Accumulate(Credit(d, gazeData, elements, i, j), gazeData, elements, i, j + 1)

calculateDwellTimeOnAOIs(gazeData, elements, rnd) ==
    LET zero == ZeroEntries(<<>>, elements, rnd, 1)
    IN  IF Len(gazeData) < 2 THEN zero
        ELSE Accumulate(zero, gazeData, elements, 1, 1)

\* The documents analysed: one region, two regions with different labels,
\* two with the same label, and a label that is a prefix of another.
The == << "t", "h", "e" >>
Then == << "t", "h", "e", "n" >>
Cause == << " ", "c", "a", "u", "s", "e", " " >>

Docs ==
    { << Element(The, 0, 0, 20, 20) >>,
      << Element(The, 0, 0, 20, 20), Element(Cause, 900, 900, 1100, 1100) >>,
      << Element(The, 0, 0, 20, 20), Element(The, 900, 900, 1100, 1100) >>,
      << Element(Then, 0, 0, 20, 20), Element(The, 900, 900, 1100, 1100) >> }

\* A point as callers other than the adapter may build it, carrying time.
TimedPoint(x, y, time) == [x |-> x, y |-> y, time |-> time]

Coordinates == { 10, 15, 1000 }
Deltas == { 100, 1900 }

LastTime(gazeData) ==
    LET p == gazeData[Len(gazeData)]
    IN  IF HasNumberTime(p) THEN p.time ELSE p.timestamp

\* The caller's gaze sequence grows by a point, either as the gaze listener
\* records it or carrying a time field.
DwellPoint ==
    /\ Len(dwellArg) < MaxDwellPoints
    /\ \E c \in Coordinates, delta \in Deltas, recorded \in BOOLEAN :
          LET t == IF dwellArg = <<>> THEN 0 ELSE LastTime(dwellArg) + delta
          IN  dwellArg' = Append(dwellArg,
                  IF recorded THEN GazePoint(c, c, t, t, Pathname)
                  ELSE TimedPoint(c, c, t))
    /\ dwellTimes' = <<>>
    /\ out' = Env("point")
    /\ UNCHANGED <<doc, budget, gazeStats>>
    /\ UNCHANGED adapterVars

calculateDwell ==
    /\ \E rnd \in [1..Len(doc) -> Suffixes] :
          dwellTimes' = calculateDwellTimeOnAOIs(dwellArg, doc, rnd)
    /\ out' = Out("calculateDwellTimeOnAOIs", "return", "", <<>>, <<>>)
    /\ UNCHANGED <<doc, dwellArg, budget, gazeStats>>
    /\ UNCHANGED adapterVars

----------------------------------------------------------------------------
(* Gaze statistics for an element *)

getGazeDataInRangeOpenEnd(startTime, endTime) ==
    SelectSeq(heapArr[gazeRef], LAMBDA point : point.timestamp >= startTime)

\* this.gazeData.filter(point => point.timestamp >= startTime &&
\*                               point.timestamp <= endTime)
getGazeDataInRange(startTime, endTime) ==
    SelectSeq(heapArr[gazeRef],
              LAMBDA point : /\ point.timestamp >= startTime
                             /\ point.timestamp <= endTime)

\* A quotient of two counts times 100, kept as the fraction num/den.
Percentage(num, den) == [num |-> num, den |-> den]

\* The object calculateGazeStats returns; null is <<>>, a timestamp t is
\* << t >>.
Stats(relevantGazeData, gazeOnElement) ==
    [totalGazePoints |-> Len(relevantGazeData),
     gazePointsOnElement |-> Len(gazeOnElement),
     gazePercentage |->
         IF Len(relevantGazeData) > 0
         THEN Percentage(Len(gazeOnElement) * 100, Len(relevantGazeData))
         ELSE Percentage(0, 1),
     firstGaze |->
         IF Len(gazeOnElement) > 0
         THEN << gazeOnElement[1].timestamp >> ELSE <<>>,
     lastGaze |->
         IF Len(gazeOnElement) > 0
         THEN << gazeOnElement[Len(gazeOnElement)].timestamp >> ELSE <<>>,
     totalDwellTime |->
         IF Len(gazeOnElement) > 0
         THEN gazeOnElement[Len(gazeOnElement)].timestamp
                  - gazeOnElement[1].timestamp
         ELSE 0]

calculateGazeStatsOf(element, timeRange) ==
    LET relevantGazeData ==
            IF timeRange # NoRange
            THEN getGazeDataInRange(timeRange[1].start, timeRange[1].end)
            ELSE heapArr[gazeRef]
        gazeOnElement ==
            SelectSeq(relevantGazeData,
                      LAMBDA point : isGazeOnElement(point.x, point.y, element))
    IN  Stats(relevantGazeData, gazeOnElement)

\* The elements callers ask statistics for: one the predicted gaze falls
\* on and one it misses.
StatElements == { Element(The, 0, 0, 20, 20),
                  Element(Cause, 900, 900, 1100, 1100) }

calculateGazeStats ==
    /\ \E element \in StatElements, timeRange \in budget.ranges :
          /\ gazeStats' = << [element |-> element, timeRange |-> timeRange,
                              stats |-> calculateGazeStatsOf(element, timeRange)] >>
          /\ out' = Out("calculateGazeStats", "return", "", <<>>, <<>>)
    /\ UNCHANGED <<doc, dwellArg, dwellTimes, budget>>
    /\ UNCHANGED adapterVars

----------------------------------------------------------------------------
(* A new page of the same session *)

\* The browser loads another page: the script runs again and makes a fresh
\* adapter instance; objects and timers of the page left are gone, the
\* engine of the new page has not begun, the session store is kept.
PageLoad ==
    /\ isInitialized' = FALSE
    /\ gazeRef' = 1
    /\ heapArr' = << <<>> >>
    /\ calRef' = 0
    /\ heapRec' = <<>>
    /\ engine' = [running |-> FALSE, ready |-> FALSE, paused |-> FALSE]
    /\ seqs' = <<>>
    /\ interrupted' = {}
    /\ calLog' = <<>>
    /\ exports' = <<>>
    /\ out' = Env("constructor")
    /\ UNCHANGED <<store, now, budget>>
    /\ UNCHANGED dwellVars

----------------------------------------------------------------------------
(* Specifications *)

\* Every operation of the adapter, its timers and the engine.  The
\* specifications after this one keep the same actions and initial state and
\* restrict the environment to the operations a group of properties is about,
\* which keeps each state space small enough to explore exhaustively.
Next ==
    \/ init
    \/ EngineReady
    \/ Gaze
    \/ clearData
    \/ stop
    \/ pause
    \/ resume
    \/ exportGazeData
    \/ calibrate
    \/ \E s \in 1..Len(seqs) : Timer(s)
    \/ Advance
    \/ saveCalibrationState
    \/ loadCalibrationState
    \/ calculateGazeStats

Spec == Init /\ [][Next]_vars

\* The calibration sequencer: the operations that start, drive or interrupt
\* a sequence.
NextCal ==
    \/ init
    \/ EngineReady
    \/ stop
    \/ pause
    \/ calibrate
    \/ \E s \in 1..Len(seqs) : Timer(s)
    \/ Advance

SpecCal == Init /\ [][NextCal]_vars

\* The session state store as the adapter alone writes it.
InitStore ==
    /\ InitAdapter
    /\ InitDwellIdle
    /\ budget = Budget(PositionArgs \ {TwoTargets}, MaxSeqs, MaxTicks, MaxLoads, 0)

NextStore ==
    \/ initOk
    \/ calibrate
    \/ \E s \in 1..Len(seqs) : Timer(s)
    \/ Advance
    \/ saveCalibrationState
    \/ loadCalibrationState

SpecStore == InitStore /\ [][NextStore]_vars

\* The same on a page where other code also writes the session store.
InitExt ==
    /\ InitAdapter
    /\ InitDwellIdle
    /\ budget = Budget(PositionArgs \ {TwoTargets}, 1, MaxTicks, MaxLoads, MaxExternal)

NextExt ==
    \/ initOk
    \/ EngineReady
    \/ stop
    \/ clearData
    \/ calibrate
    \/ \E s \in 1..Len(seqs) : Timer(s)
    \/ Advance
    \/ saveCalibrationState
    \/ loadCalibrationState
    \/ ExternalSetItem
    \/ ExternalRemoveItem

SpecExt == InitExt /\ [][NextExt]_vars

\* Gaze capture and export.
InitGaze ==
    /\ InitAdapter
    /\ InitDwellIdle
    /\ budget = Budget({ Given(<<>>), OneTarget }, 1, 3, 0, 0)

NextGaze ==
    \/ init
    \/ EngineReady
    \/ Gaze
    \/ clearData
    \/ stop
    \/ pause
    \/ resume
    \/ exportGazeData
    \/ calibrate
    \/ \E s \in 1..Len(seqs) : Timer(s)
    \/ Advance

SpecGaze == InitGaze /\ [][NextGaze]_vars

\* The dwell analysis applied to the gaze sequences callers hand it.
InitDwell ==
    /\ InitAdapter
    /\ doc \in Docs
    /\ dwellArg = <<>>
    /\ dwellTimes = <<>>
    /\ gazeStats = <<>>
    /\ budget = Budget({}, 0, 0, 0, 0)

NextDwell == DwellPoint \/ calculateDwell

SpecDwell == InitDwell /\ [][NextDwell]_vars

\* Every operation of the adapter on one short session: at most one
\* calibrate() call, of no target or of one, and a few clock quanta.
InitOps ==
    /\ InitAdapter
    /\ InitDwellIdle
    /\ budget = [Budget({Given(<<>>), OneTarget}, 1, OpsTicks, MaxLoads, 0)
                    EXCEPT !.ranges = {NoRange}]

SpecOps == InitOps /\ [][Next]_vars

\* Gaze statistics over what the listener recorded.
InitStats ==
    /\ InitAdapter
    /\ InitDwellIdle
    /\ budget = Budget({}, 0, StatsTicks, 0, 0)

NextStats ==
    \/ initOk
    \/ Gaze
    \/ Advance
    \/ clearData
    \/ calculateGazeStats

SpecStats == InitStats /\ [][NextStats]_vars

\* Calibration sequences run to their end, one overlapping another.
InitOrder ==
    /\ InitAdapter
    /\ InitDwellIdle
    /\ budget = Budget({Given(<<>>), OneTarget, TwoTargets}, MaxSeqs,
                       LongTicks, 0, 0)

NextOrder ==
    \/ initOk
    \/ calibrate
    \/ \E s \in 1..Len(seqs) : Timer(s)
    \/ Advance

SpecOrder == InitOrder /\ [][NextOrder]_vars

\* A session of several pages, each with its own adapter instance.
InitPages ==
    /\ InitAdapter
    /\ InitDwellIdle
    /\ budget = Budget({Given(<<>>), OneTarget}, 1, MaxTicks, MaxLoads, 0)

NextPages ==
    \/ initOk
    \/ calibrate
    \/ \E s \in 1..Len(seqs) : Timer(s)
    \/ Advance
    \/ saveCalibrationState
    \/ loadCalibrationState
    \/ PageLoad

SpecPages == InitPages /\ [][NextPages]_vars

\* Starting the engine, any of its calls failing, while it delivers gaze.
InitStart ==
    /\ InitAdapter
    /\ InitDwellIdle
    /\ budget = [Budget({}, 0, OpsTicks, 0, 0) EXCEPT !.failing = 1..6]

NextStart ==
    \/ init
    \/ EngineReady
    \/ Gaze
    \/ stop
    \/ Advance

SpecStart == InitStart /\ [][NextStart]_vars

----------------------------------------------------------------------------
(* Claims *)

StoredFlag == getItem("eyeTrackingCalibrated")
StoredTimestamp == getItem("calibrationTimestamp")
StoredData == getItem("calibrationData")

\* C1: isCalibrated() is truthy exactly when the in-memory record exists with
\* completed = true and the stored flag is the string 'true'.
C1_IsCalibratedIff ==
    Truthy(isCalibrated) <=>
        /\ calRef # 0
        /\ heapRec[calRef].completed
        /\ StoredFlag = << "true" >>

\* C1 witness: a completed, saved calibration is reported as calibrated.
C1_Witness == Truthy(isCalibrated) /\ out.op = "saveCalibrationState"

\* C2: saveCalibrationState() on a null or incomplete record leaves the store
\* unchanged, and whenever the stored flag is 'true' the stored serialized
\* record has completed = true.
C2_NeverPersistsIncomplete ==
    /\ [](StoredFlag = << "true" >> =>
            /\ StoredData # <<>>
            /\ Parses(StoredData[1])
            /\ StoredData[1] # "null"
            /\ JSONparse(StoredData[1]).completed)
    /\ [][(/\ out'.op = "saveCalibrationState"
           /\ (calRef = 0 \/ ~heapRec[calRef].completed))
          => store' = store]_vars

\* C2 witness: a save was called on an incomplete record while the store
\* holds an earlier, completed calibration.
C2_Witness ==
    /\ out.op = "saveCalibrationState"
    /\ calRef # 0
    /\ ~heapRec[calRef].completed
    /\ StoredFlag = << "true" >>

IsSample(e) == e.kind = "recordScreenPosition"

SamplesOf(s, i, upTo) ==
    Cardinality({ k \in 1..upTo :
                    IsSample(calLog[k]) /\ calLog[k].seq = s /\ calLog[k].index = i })

\* C3: the current record has completed = true only if every position of its
\* own positions list has been visited with all of its samples recorded.
C3_CompletedOnlyWhenAllVisited ==
    (calRef # 0 /\ heapRec[calRef].completed /\ heapRec[calRef].owner # 0) =>
        \A i \in 0..(Len(heapRec[calRef].positions) - 1) :
            SamplesOf(heapRec[calRef].owner, i, Len(calLog)) = maxSamples

Samples == SelectSeq(calLog, IsSample)

SameTarget(a, b) == a.seq = b.seq /\ a.index = b.index

CountBefore(k, e) ==
    Cardinality({ j \in 1..(k - 1) : SameTarget(Samples[j], e) })

\* C4: the recordScreenPosition calls form contiguous blocks of exactly
\* maxSamples calls per target: a call for another target comes only when the
\* previous target's block is full, and opens a new block.
C4_ContiguousBlocks ==
    \A k \in 2..Len(Samples) :
        ~SameTarget(Samples[k], Samples[k - 1]) =>
            /\ CountBefore(k, Samples[k - 1]) = maxSamples
            /\ CountBefore(k, Samples[k]) = 0

\* C5 as claimed: a sequence that saw stop() or pause() while in progress is
\* never resolved afterwards.
C5_NeverResolvedAfterInterrupt ==
    [][\A s \in interrupted :
          seqs[s].status # "resolved" => seqs'[s].status # "resolved"]_vars

\* C5 amended: stop() and pause() do not cancel a sequence in progress: they
\* leave its pending timer and progress untouched, it keeps a pending timer
\* until it resolves, and the timer past its last target resolves it.
C5_InterruptDoesNotCancel ==
    /\ [](\A s \in interrupted : seqs[s].status \in {"sampling", "settling", "resolved"})
    /\ [][out'.op \in {"stop", "pause"} => seqs' = seqs]_vars
    /\ [][\A s \in interrupted :
            (/\ out'.op = "timer"
             /\ seqs'[s] # seqs[s]
             /\ seqs[s].status = "settling"
             /\ seqs[s].currentPoint >= Len(seqs[s].positions))
            => seqs'[s].status = "resolved"]_vars

\* C5 witness: a sequence interrupted mid-run has resolved.
C5_Witness == \E s \in interrupted : seqs[s].status = "resolved"

\* C6: an export record still holds what it held when it was returned.
C6_ExportIsSnapshot ==
    \A i \in 1..Len(exports) :
        /\ heapArr[exports[i].gazeData] = exports[i].asReturned.gazeData
        /\ RecordAt(exports[i].calibrationData) = exports[i].asReturned.calibrationData

Recorded(gazeData) ==
    \A i \in 1..Len(gazeData) : DOMAIN gazeData[i] = DOMAIN GazePoint(0, 0, 0, 0, "")

RECURSIVE ExpectedDwell(_, _, _)
ExpectedDwell(gazeData, el, i) ==
    IF i > Len(gazeData) - 1 THEN 0
    ELSE LET delta == gazeData[i + 1].timestamp - gazeData[i].timestamp
         IN  ExpectedDwell(gazeData, el, i + 1)
             + (IF /\ isGazeOnElement(gazeData[i].x, gazeData[i].y, el)
                   /\ delta > 0
                   /\ delta < DwellThreshold
                THEN delta ELSE 0)

Prefixed(a, b) == startsWith(trim(a), trim(b))

DistinctLabels ==
    \A i, j \in 1..Len(doc) :
        i # j => ~Prefixed(doc[i].innerText, doc[j].innerText)

\* C7: on points as the gaze listener records them, every region's dwell is
\* the sum of the deltas (positive, below the threshold) of the consecutive
\* pairs whose earlier point lies inside the region.
C7_DwellIsSumOfDeltas ==
    (/\ out.op = "calculateDwellTimeOnAOIs"
     /\ Recorded(dwellArg)
     /\ DistinctLabels)
    => /\ Len(dwellTimes) = Len(doc)
       /\ \A j \in 1..Len(doc) : dwellTimes[j].ms = ExpectedDwell(dwellArg, doc[j], 1)

Corrupted ==
    \/ \E k \in Keys : getItem(k) = <<>>
    \/ StoredFlag # << "true" >>
    \/ ~Parses(StoredData[1])

\* C8: loadCalibrationState() on corrupted or partial stored state returns
\* false, leaves the in-memory record unchanged and raises no error.
C8_CorruptedLoadsAsAbsent ==
    [][(out'.op = "loadCalibrationState" /\ Corrupted)
       => /\ out'.kind = "return"
          /\ out'.val = "false"
          /\ calRef' = calRef
          /\ heapRec' = heapRec]_vars

Restorable ==
    /\ StoredFlag = << "true" >>
    /\ TruthyItem(StoredTimestamp)
    /\ TruthyItem(StoredData)

Deserialized(text) ==
    IF text = "null" THEN <<>>
    ELSE LET r == JSONparse(text)
         IN  << CalibrationRecord(r.positions, r.timestamp, r.completed, 0) >>

\* C9: loadCalibrationState() replaces the in-memory record by the
\* deserialized stored record and returns true exactly when the three keys
\* are present and non-empty and the flag is 'true'; in every other case it
\* returns false and leaves the record unchanged.
C9_LoadRestoresIff ==
    [][out'.op = "loadCalibrationState" =>
        IF Restorable
        THEN /\ out'.kind = "return"
             /\ out'.val = "true"
             /\ Parses(StoredData[1]) =>
                  (IF calRef' = 0 THEN <<>> ELSE << heapRec'[calRef'] >>)
                      = Deserialized(StoredData[1])
        ELSE /\ out'.kind = "return"
             /\ out'.val = "false"
             /\ calRef' = calRef
             /\ heapRec' = heapRec]_vars

\* C10: calibrate() on an adapter that is not initialized throws 'Eye tracking
\* not initialized' and does nothing else: record, gaze sequence and sequences
\* unchanged, no engine call, no event.
C10_CalibrateNeedsInit ==
    [][(out'.op = "calibrate" /\ ~isInitialized)
       => /\ out'.kind = "throw"
          /\ out'.val = "Eye tracking not initialized"
          /\ out'.calls = <<>>
          /\ out'.events = <<>>
          /\ UNCHANGED <<calRef, heapRec, gazeRef, heapArr, seqs, calLog>>]_vars

\* C10 witness: calibrate() threw on an adapter that had been initialized,
\* had started a calibration and was stopped since.
C10_Witness ==
    /\ out.op = "calibrate"
    /\ out.kind = "throw"
    /\ Len(seqs) > 0
    /\ ~engine.running

----------------------------------------------------------------------------
(* The gaze sequence *)

\* The points this.gazeData holds, in order.
GazeSequence == heapArr[gazeRef]

IsPrefix(a, b) == Len(a) <= Len(b) /\ SubSeq(b, 1, Len(a)) = a

\* C11: the gaze sequence is append-only.  Every step keeps the previous
\* sequence as an unmodified prefix: a non-null prediction appends exactly
\* one point, stamped with the current time and page, a null prediction
\* appends none, clearData() leaves the sequence empty, and every other
\* operation leaves it as it was.
C11_GazeAppendOnly ==
    [][ IF out'.op = "clearData"
        THEN GazeSequence' = <<>>
        ELSE IF out'.op = "gazeListener" /\ out'.events = << "gaze" >>
        THEN /\ Len(GazeSequence') = Len(GazeSequence) + 1
             /\ IsPrefix(GazeSequence, GazeSequence')
             /\ GazeSequence'[Len(GazeSequence')].timestamp = now
             /\ GazeSequence'[Len(GazeSequence')].page = Pathname
        ELSE GazeSequence' = GazeSequence ]_vars

\* A second point was appended behind one recorded at an earlier time.
C11_Witness ==
    /\ out.op = "gazeListener"
    /\ out.events = << "gaze" >>
    /\ Len(GazeSequence) = 2
    /\ GazeSequence[1].timestamp < GazeSequence[2].timestamp

----------------------------------------------------------------------------
(* What calibrate() resolves with *)

\* C12: a calibrate(positions) call that has resolved resolved with a
\* record whose completed is true and whose positions are the list that call
\* was given; and the call takes maxSamples samples of each of its targets
\* before it resolves.
C12_ResolvesWithOwnPositions ==
    \A s \in 1..Len(seqs) :
        seqs[s].status = "resolved"
        => /\ heapRec[seqs[s].value].completed
           /\ heapRec[seqs[s].value].positions = seqs[s].positions
           /\ \A i \in 1..Len(seqs[s].positions) :
                 SamplesOf(s, i - 1, Len(calLog)) = maxSamples

----------------------------------------------------------------------------
(* Starting the engine *)

\* C13: init() never throws.  It returns true, with isInitialized set and
\* one 'initialized' event raised, when every call on the engine succeeded;
\* when one failed it returns false with one 'error' event raised and
\* leaves isInitialized and the gaze sequence as they were.
C13_InitNeverThrows ==
    [][ out'.op = "init" =>
          /\ out'.kind = "return"
          /\ \/ /\ out'.val = "true"
                /\ out'.calls = InitCalls
                /\ out'.events = << "initialized" >>
                /\ isInitialized'
             \/ /\ out'.val = "false"
                /\ out'.events = << "error" >>
                /\ isInitialized' = isInitialized
                /\ GazeSequence' = GazeSequence ]_vars

\* A second init() failed at its first call on the engine, on an adapter
\* that stays initialized and keeps its gaze points.
C13_Witness ==
    /\ out.op = "init"
    /\ out.val = "false"
    /\ out.calls = << "setRegression" >>
    /\ isInitialized
    /\ GazeSequence # <<>>

----------------------------------------------------------------------------
(* Dwell per region *)

Timed(gazeData) ==
    \A i \in 1..Len(gazeData) : HasNumberTime(gazeData[i])

RECURSIVE ExpectedDwellByTime(_, _, _)
ExpectedDwellByTime(gazeData, el, i) ==
    IF i > Len(gazeData) - 1 THEN 0
    ELSE LET delta == gazeData[i + 1].time - gazeData[i].time
         IN  ExpectedDwellByTime(gazeData, el, i + 1)
             + (IF /\ isGazeOnElement(gazeData[i].x, gazeData[i].y, el)
                   /\ delta > 0
                   /\ delta < DwellThreshold
                THEN delta ELSE 0)

\* C14: on points that carry a time, the mapping has one entry per marked
\* region, in document order and keyed by that region's label, and a
\* region's entry holds the dwell of the gaze inside that region and of no
\* other, also when two regions carry the same label or one label is a
\* prefix of another.
C14_OneEntryPerRegion ==
    (out.op = "calculateDwellTimeOnAOIs" /\ Timed(dwellArg))
    => /\ Len(dwellTimes) = Len(doc)
       /\ \A j \in 1..Len(doc) :
             /\ startsWith(dwellTimes[j].key, trim(doc[j].innerText))
             /\ dwellTimes[j].ms = ExpectedDwellByTime(dwellArg, doc[j], 1)

----------------------------------------------------------------------------
(* clearData() *)

\* C15: clearData() empties the gaze sequence in every state, asks the
\* engine to discard its training data exactly when the adapter is
\* initialized and makes no call on the engine otherwise, raises no event,
\* and leaves isInitialized, the in-memory calibration record and the
\* session store as they were.
C15_ClearDataFrame ==
    [][ out'.op = "clearData" =>
          /\ GazeSequence' = <<>>
          /\ out'.calls = IF isInitialized THEN << "clearData" >> ELSE <<>>
          /\ out'.events = <<>>
          /\ UNCHANGED <<isInitialized, calRef, heapRec, store>> ]_vars

\* clearData() ran on an initialized adapter that holds a saved record,
\* after an export took the points recorded until then.
C15_Witness ==
    /\ out.op = "clearData"
    /\ out.calls = << "clearData" >>
    /\ GazeSequence = <<>>
    /\ calRef # 0
    /\ StoredFlag = << "true" >>
    /\ \E i \in 1..Len(exports) : heapArr[exports[i].gazeData] # <<>>

----------------------------------------------------------------------------
(* Gaze statistics *)

\* The points statistics are asked over: the whole gaze sequence, or its
\* points stamped inside the time range, ends included.
Considered(timeRange) ==
    { i \in 1..Len(GazeSequence) :
        timeRange # NoRange =>
            /\ GazeSequence[i].timestamp >= timeRange[1].start
            /\ GazeSequence[i].timestamp <= timeRange[1].end }

ZeroStats ==
    [totalGazePoints |-> 0, gazePointsOnElement |-> 0,
     gazePercentage |-> Percentage(0, 1), firstGaze |-> <<>>,
     lastGaze |-> <<>>, totalDwellTime |-> 0]

\* C16: calculateGazeStats over an empty considered sequence (no point
\* recorded, or a time range that excludes every point) returns
\* totalGazePoints 0, gazePointsOnElement 0, gazePercentage 0, firstGaze
\* null, lastGaze null and totalDwellTime 0.
C16_EmptyStatsAreZero ==
    (/\ out.op = "calculateGazeStats"
     /\ Considered(gazeStats[1].timeRange) = {})
    => gazeStats[1].stats = ZeroStats

\* Statistics were asked for a time range that excludes every point of a
\* gaze sequence holding two points.
C16_Witness ==
    /\ out.op = "calculateGazeStats"
    /\ Len(GazeSequence) = 2
    /\ gazeStats[1].timeRange # NoRange
    /\ Considered(gazeStats[1].timeRange) = {}
    /\ gazeStats[1].stats.totalGazePoints = 0

----------------------------------------------------------------------------
(* Order of the calibration events *)

\* What is told about a log entry of a calibrate() call: its kind, and the
\* target index for a calibrationPoint event and for a sample.
Tag(e) ==
    << e.kind,
       IF e.kind \in {"calibrationPoint", "recordScreenPosition"}
       THEN e.index ELSE 0 >>

\* The events and samples of calibrate() call s, in the order they happened.
LogOf(s) ==
    LET own == SelectSeq(calLog, LAMBDA e : e.seq = s)
    IN  [k \in 1..Len(own) |-> Tag(own[k])]

\* From target i on: the calibrationPoint event of a target, then its
\* samples, target after target, then calibrationCompleted.
RECURSIVE OrderFrom(_, _)
OrderFrom(n, i) ==
    IF i >= n THEN << << "calibrationCompleted", 0 >> >>
    ELSE << << "calibrationPoint", i >> >>
         \o [k \in 1..maxSamples |-> << "recordScreenPosition", i >>]
         \o OrderFrom(n, i + 1)

FullOrder(n) == << << "calibrationStarted", 0 >> >> \o OrderFrom(n, 0)

\* C17: within one calibrate() call over n targets the events come in the
\* order calibrationStarted once, then for index 0 to n-1 in increasing
\* order one calibrationPoint followed by the samples of that target, then
\* calibrationCompleted once; and the promise is resolved exactly when
\* calibrationCompleted has been raised.
C17_EventOrder ==
    \A s \in 1..Len(seqs) :
        /\ IsPrefix(LogOf(s), FullOrder(Len(seqs[s].positions)))
        /\ seqs[s].status = "resolved"
              <=> LogOf(s) = FullOrder(Len(seqs[s].positions))

\* A call over two targets has resolved while another call was running.
C17_Witness ==
    \E s, t \in 1..Len(seqs) :
        /\ Len(seqs[s].positions) = 2
        /\ seqs[s].status = "resolved"
        /\ Pending(seqs[t])

----------------------------------------------------------------------------
(* stop(), pause(), resume() *)

\* C18: stop() takes effect only on an initialized adapter whose engine
\* reports ready: it then ends the engine, sets isInitialized false and
\* raises one 'stopped' event.  In every other state, and so on a stop()
\* that follows a stop() at once, it changes nothing, calls nothing on the
\* engine and raises nothing.  stop(), pause() and resume() never change
\* the gaze sequence.
C18_StopIdempotent ==
    [][ /\ out'.op = "stop" =>
              IF isInitialized /\ engine.ready
              THEN /\ out'.calls = << "end" >>
                   /\ out'.events = << "stopped" >>
                   /\ ~isInitialized'
                   /\ ~engine'.running
              ELSE /\ out'.calls = <<>>
                   /\ out'.events = <<>>
                   /\ UNCHANGED <<isInitialized, gazeRef, heapArr, calRef,
                                  heapRec, store, engine, seqs, calLog,
                                  exports, now>>
        /\ (out.op = "stop" /\ out'.op = "stop") =>
              /\ out'.calls = <<>>
              /\ out'.events = <<>>
              /\ UNCHANGED <<isInitialized, engine>>
        /\ out'.op \in {"stop", "pause", "resume"} =>
              GazeSequence' = GazeSequence ]_vars

\* stop() did nothing on an adapter that is initialized, holds gaze points
\* and whose engine is not ready.
C18_Witness ==
    /\ out.op = "stop"
    /\ out.calls = <<>>
    /\ isInitialized
    /\ ~engine.ready
    /\ GazeSequence # <<>>

----------------------------------------------------------------------------
(* Calibration across pages *)

PlainOf(rec) == Plain(rec.positions, rec.timestamp, rec.completed)

\* C19: calibration survives a change of page.  saveCalibrationState() on
\* a completed record stores a text that reads back as that record
\* (positions, timestamp, completed = true) with the flag 'true'; on a
\* fresh adapter instance sharing the session store loadCalibrationState()
\* then returns true and leaves a record equal to the stored one, for
\* which isCalibrated() is true; and a fresh instance that has not loaded
\* reports isCalibrated() falsy whatever the flag says.
C19_RoundTripAcrossPages ==
    /\ [](calRef = 0 => ~Truthy(isCalibrated))
    /\ [][ /\ (out'.op = "saveCalibrationState" /\ SavesRecord) =>
                /\ Restorable'
                /\ Parses(StoredData'[1])
                /\ JSONparse(StoredData'[1]) = PlainOf(heapRec[calRef])
           /\ (out'.op = "loadCalibrationState" /\ calRef = 0 /\ Restorable) =>
                /\ out'.kind = "return"
                /\ out'.val = "true"
                /\ calRef' # 0
                /\ PlainOf(heapRec'[calRef']) = JSONparse(StoredData[1])
                /\ heapRec'[calRef'].completed
                /\ Truthy(isCalibrated') ]_vars

\* On a page loaded after the save, a fresh instance has loaded the record
\* of a one-target calibration.
C19_Witness ==
    /\ out.op = "loadCalibrationState"
    /\ out.val = "true"
    /\ Len(heapRec) = 1
    /\ seqs = <<>>
    /\ calRef = 1
    /\ heapRec[calRef].positions = << Pos(50, 50) >>
    /\ Truthy(isCalibrated)

----------------------------------------------------------------------------
(* The three persisted keys *)

\* C20: the adapter writes the three persisted keys only together and
\* never removes one.  In every state either none of them is set, or all
\* three are set, the flag is 'true' and the stored calibrationTimestamp is
\* the timestamp inside the stored serialized record, whatever the
\* in-memory record has become since; and a key that is set stays set.
C20_KeysWrittenTogether ==
    /\ [](\/ \A k \in Keys : getItem(k) = <<>>
          \/ /\ \A k \in Keys : getItem(k) # <<>>
             /\ StoredFlag = << "true" >>
             /\ Parses(StoredData[1])
             /\ StoredData[1] # "null"
             /\ StoredTimestamp[1] = ToString(JSONparse(StoredData[1]).timestamp))
    /\ [][\A k \in Keys : getItem(k) # <<>> => getItem(k)' # <<>>]_vars

\* The three keys hold a saved record while a later calibrate() call has
\* put a newer, uncompleted record in memory.
C20_Witness ==
    /\ \A k \in Keys : getItem(k) # <<>>
    /\ calRef # 0
    /\ ~heapRec[calRef].completed
    /\ heapRec[calRef].timestamp > JSONparse(StoredData[1]).timestamp

====
